---- MODULE Spec2Model ----
(***************************************************************************)
(* Tangerine: the Local Store (models/mediaData.js) and the Suggestion     *)
(* Engine (services/suggestionService.js) as a state machine.              *)
(*                                                                         *)
(* A movie record is [imdbID, userRating]; the other fields of a record    *)
(* (Title, Year, Poster, reason ...) are never read by the store or by the *)
(* engine's decisions and are left out.  JavaScript's single thread runs   *)
(* every synchronous stretch of code to completion, so one action is one   *)
(* such stretch: a whole synchronous function, or an async function from   *)
(* one await to the next.                                                  *)
(***************************************************************************)
EXTENDS Integers, Sequences, FiniteSets, TLC

VARIABLES
    mediaData,      \* the global store record (mediaData.js:10-16)
    localStorage,   \* <<>> when the key is unset, else <<blob>>
    gen,            \* the getMovieSuggestions call in flight
    repl,           \* the replaceSuggestion calls in flight, oldest first
    ev,             \* what the last step did: operation, return value, callbacks
    ratings         \* the rating modal: currentMovie, currentRating, timers (ratings.js:8-9)

vars == <<mediaData, localStorage, gen, repl, ev, ratings>>

----------------------------------------------------------------------------
(* Bounds of the model *)

NumIds == 3             \* external IDs are 1..NumIds
MaxCandidates == 2      \* most candidates one Suggestion Client answer holds
MaxRepl == 1            \* most replaceSuggestion calls in flight at once
MaxImportLen == 1       \* longest list of an imported file

Ids == 1..NumIds

(* Program constants *)

NoRating == 0           \* the userRating property is absent (rating = null)
SuggestionLimit == 5    \* suggestionData.slice(0, 5)

RatingInputs == {NoRating, 2, 10}

Movie(i) == [imdbID |-> i, userRating |-> NoRating]

----------------------------------------------------------------------------
(* Array helpers, as the JavaScript built-ins behave (indices from 1; 0     *)
(* stands for JavaScript's -1)                                              *)

IdsOf(list) == {list[k].imdbID : k \in DOMAIN list}

findIndex(list, imdbID) ==
    IF \E k \in DOMAIN list : list[k].imdbID = imdbID
    THEN CHOOSE k \in DOMAIN list :
            /\ list[k].imdbID = imdbID
            /\ \A j \in DOMAIN list : list[j].imdbID = imdbID => k <= j
    ELSE 0

splice(list, k) == [j \in 1..(Len(list) - 1) |-> IF j < k THEN list[j] ELSE list[j + 1]]

unshift_atEnd(list, movie) == Append(list, movie)

unshift(list, movie) == <<movie>> \o list

slice(list, n) == [j \in 1..(IF Len(list) < n THEN Len(list) ELSE n) |-> list[j]]

filterNonNull_reversed(list) ==
    LET kept == SelectSeq(list, LAMBDA x : x # <<>>)
    IN [j \in 1..Len(kept) |-> kept[Len(kept) + 1 - j][1]]

\* suggestionsWithDetails.filter(s => s !== null), on a list of <<>> and <<record>>
RECURSIVE filterNonNull(_)
filterNonNull(list) ==
    IF list = <<>> THEN <<>>
    ELSE IF Head(list) = <<>> THEN filterNonNull(Tail(list))
    ELSE Head(list) \o filterNonNull(Tail(list))

----------------------------------------------------------------------------
(* The Local Store: models/mediaData.js *)

EmptyStore == [toWatch |-> <<>>, watched |-> <<>>, suggestions |-> <<>>]

\* JSON.stringify(mediaData): a property whose value is undefined is dropped, so
\* a record without userRating is written without it and read back without it.
JSONstringify_noSuggestions(md) == [toWatch |-> md.toWatch, watched |-> md.watched, suggestions |-> <<>>]

JSONstringify(md) == [toWatch |-> md.toWatch, watched |-> md.watched, suggestions |-> md.suggestions]

saveToLocalStorage(md) == <<JSONstringify(md)>>

\* loadFromLocalStorage: leaves the default record when the key is unset
loadFromLocalStorage(storage) ==
    IF storage = <<>> THEN EmptyStore
    ELSE [toWatch |-> storage[1].toWatch,
          watched |-> storage[1].watched,
          suggestions |-> storage[1].suggestions]

getMovies(list) == mediaData[list]

getCurrentSuggestions == mediaData.suggestions

findMovieInLists_watchedOnly(imdbID) == imdbID \in IdsOf(mediaData.watched)

findMovieInLists_toWatchOnly(imdbID) == imdbID \in IdsOf(mediaData.toWatch)

\* the truthiness of findMovieInLists(imdbID)
findMovieInLists(imdbID) ==
    \/ imdbID \in IdsOf(mediaData.toWatch)
    \/ imdbID \in IdsOf(mediaData.watched)

\* ev.callbacks lists the callbacks the step invoked, in order; ev.requests
\* counts the requests it sent to the Suggestion Client and the Metadata Client.
\* The outcome of a client function called on its own: whether it throws, and the
\* value it returns (<<>> for null or [], <<x>> for a record or a list of one).
Throws == [throws |-> TRUE, value |-> <<>>]

Returns(value) == [throws |-> FALSE, value |-> value]

NoEvent == [op |-> "none", ret |-> "none", callbacks |-> <<>>, requests |-> 0]

\* the event of a client function called on its own: what it was answered and
\* its outcome
ClientEvent(op, input, output) ==
    [op |-> op, ret |-> "none", callbacks |-> <<>>, input |-> input, output |-> output]

Callback(name, id, arg) == [name |-> name, id |-> id, arg |-> arg]

\* the rating modal before it is shown: no movie, no rating (ratings.js:8-9),
\* no saveRating timer pending.  clicked is history: the (movie, star) pairs
\* the user has clicked.
NoMovie == 0

RatingsIdle == [currentMovie |-> NoMovie, currentRating |-> 0, timers |-> 0, clicked |-> {}]

\* no getMovieSuggestions call in flight
GenIdle == [pc |-> "idle", existingMovieIds |-> {}, idsAtCall |-> {},
            suggestionsAtCall |-> <<>>, pending |-> {}, results |-> <<>>]

Event(op, ret) == [NoEvent EXCEPT !.op = op, !.ret = ret]

\* the store part of addToWatchList(movie): the new record and the return value
addToWatchList(movie) ==
    /\ IF findMovieInLists(movie.imdbID)
       THEN /\ UNCHANGED <<mediaData, localStorage>>
            /\ ev' = Event("addToWatchList", "false")
       ELSE /\ mediaData' = [mediaData EXCEPT !.toWatch = unshift(@, movie)]
            /\ localStorage' = saveToLocalStorage(mediaData')
            /\ ev' = Event("addToWatchList", "true")
    /\ UNCHANGED <<gen, repl>>
    /\ UNCHANGED ratings

markAsWatched(imdbID, rating) ==
    LET movieIndex == findIndex(mediaData.toWatch, imdbID) IN
    /\ IF movieIndex = 0
       THEN UNCHANGED <<mediaData, localStorage>>
       ELSE LET old == mediaData.toWatch[movieIndex]
                movie == IF rating # NoRating
                         THEN [old EXCEPT !.userRating = rating]
                         ELSE old
            IN /\ mediaData' = [mediaData EXCEPT
                                    !.toWatch = splice(@, movieIndex),
                                    !.watched = unshift(@, movie)]
               /\ localStorage' = saveToLocalStorage(mediaData')
    /\ ev' = Event("markAsWatched", "none")
    /\ UNCHANGED <<gen, repl>>
    /\ UNCHANGED ratings

markAsUnwatched(imdbID) ==
    LET movieIndex == findIndex(mediaData.watched, imdbID) IN
    /\ IF movieIndex = 0
       THEN UNCHANGED <<mediaData, localStorage>>
       ELSE LET movie == [mediaData.watched[movieIndex] EXCEPT !.userRating = NoRating]
            IN /\ mediaData' = [mediaData EXCEPT
                                    !.watched = splice(@, movieIndex),
                                    !.toWatch = unshift(@, movie)]
               /\ localStorage' = saveToLocalStorage(mediaData')
    /\ ev' = Event("markAsUnwatched", "none")
    /\ UNCHANGED <<gen, repl>>
    /\ UNCHANGED ratings

updateMovieRating(imdbID, rating) ==
    LET movieIndex == findIndex(mediaData.watched, imdbID) IN
    /\ IF movieIndex = 0
       THEN UNCHANGED <<mediaData, localStorage>>
       ELSE /\ mediaData' = [mediaData EXCEPT !.watched[movieIndex].userRating = rating]
            /\ localStorage' = saveToLocalStorage(mediaData')
    /\ ev' = Event("updateMovieRating", "none")
    /\ UNCHANGED <<gen, repl>>
    /\ UNCHANGED ratings

removeMovie(imdbID, list) ==
    LET movieIndex == findIndex(mediaData[list], imdbID) IN
    /\ IF movieIndex = 0
       THEN UNCHANGED <<mediaData, localStorage>>
       ELSE /\ mediaData' = [mediaData EXCEPT ![list] = splice(@, movieIndex)]
            /\ localStorage' = saveToLocalStorage(mediaData')
    /\ ev' = Event("removeMovie", "none")
    /\ UNCHANGED <<gen, repl>>
    /\ UNCHANGED ratings

\* A file given to importMovieData: whether JSON.parse accepts the text, and the
\* properties of the parsed object that are present (and truthy).
File(has, toWatch, watched, suggestions) ==
    [parses |-> TRUE, has |-> has,
     toWatch |-> toWatch, watched |-> watched, suggestions |-> suggestions]

NotJson == [parses |-> FALSE, has |-> {}, toWatch |-> <<>>, watched |-> <<>>, suggestions |-> <<>>]

ImportLists == UNION {[1..n -> {Movie(i) : i \in Ids}] : n \in 0..MaxImportLen}

ImportFiles ==
    {NotJson}
    \cup {File({"toWatch", "watched", "suggestions"}, t, w, s) :
                t \in ImportLists, w \in ImportLists, s \in ImportLists}
    \cup {File({"toWatch", "watched"}, t, w, <<>>) : t \in ImportLists, w \in ImportLists}
    \cup {File({"toWatch"}, t, <<>>, <<>>) : t \in ImportLists}
    \cup {File({"watched"}, <<>>, w, <<>>) : w \in ImportLists}

importMovieData_noValidation(jsonData) ==
    /\ IF ~jsonData.parses
       THEN /\ UNCHANGED <<mediaData, localStorage>>
            /\ ev' = Event("importMovieData", "false")
       ELSE /\ mediaData' = [mediaData EXCEPT
                                !.toWatch = jsonData.toWatch,
                                !.watched = jsonData.watched,
                                !.suggestions = jsonData.suggestions]
            /\ localStorage' = saveToLocalStorage(mediaData')
            /\ ev' = Event("importMovieData", "true")
    /\ UNCHANGED <<gen, repl>>
    /\ UNCHANGED ratings

importMovieData(jsonData) ==
    /\ IF ~jsonData.parses
       THEN \* JSON.parse throws: caught, return false
            /\ UNCHANGED <<mediaData, localStorage>>
            /\ ev' = Event("importMovieData", "false")
       ELSE IF "toWatch" \notin jsonData.has \/ "watched" \notin jsonData.has
       THEN /\ UNCHANGED <<mediaData, localStorage>>
            /\ ev' = Event("importMovieData", "false")
       ELSE /\ mediaData' = [mediaData EXCEPT
                                !.toWatch = jsonData.toWatch,
                                !.watched = jsonData.watched,
                                !.suggestions = IF "suggestions" \in jsonData.has
                                                THEN jsonData.suggestions ELSE <<>>]
            /\ localStorage' = saveToLocalStorage(mediaData')
            /\ ev' = Event("importMovieData", "true")
    /\ UNCHANGED <<gen, repl>>
    /\ UNCHANGED ratings

\* initMediaData at a page load: the record is rebuilt from local storage, and
\* the calls of the page that was left are gone with it
initMediaData ==
    /\ mediaData' = loadFromLocalStorage(localStorage)
    /\ gen' = GenIdle
    /\ repl' = <<>>
    /\ ev' = Event("initMediaData", "none")
    /\ UNCHANGED localStorage
    /\ UNCHANGED ratings

----------------------------------------------------------------------------
(* The Suggestion Engine: services/suggestionService.js                     *)
(*                                                                          *)
(* The Suggestion Client and the Metadata Client are the environment: a     *)
(* request settles in a later step, with any answer.  searchMovieByTitle    *)
(* catches every failure and returns null, so a lookup settles with null    *)
(* (<<>>) or with one record (<<movie>>).                                   *)

saveSuggestions(suggestions) ==
    /\ mediaData' = [mediaData EXCEPT !.suggestions = suggestions]
    /\ localStorage' = saveToLocalStorage(mediaData')

LookupAnswers == {<<>>} \cup {<<Movie(i)>> : i \in Ids}

\* what getSuggestions resolves to: parseResponseJson gives an array, or a single
\* object when the text held an object literal
SuggestionAnswers ==
    {[isArray |-> FALSE, n |-> 0]} \cup {[isArray |-> TRUE, n |-> m] : m \in 0..MaxCandidates}

hasMovies_always == TRUE

hasMovies == Len(getMovies("toWatch")) > 0 \/ Len(getMovies("watched")) > 0

genExistingMovieIds_toWatchOnly == IdsOf(getMovies("toWatch"))

\* existingMovieIds of getMovieSuggestions
genExistingMovieIds == IdsOf(getMovies("toWatch") \o getMovies("watched"))

\* getMovieSuggestions up to its first await.  gen.idsAtCall and
\* gen.suggestionsAtCall are history: the store as it was when the call began.
getMovieSuggestions ==
    /\ gen.pc = "idle"
    /\ IF ~hasMovies
       THEN /\ ev' = [Event("getMovieSuggestions", "none") EXCEPT
                        !.callbacks = <<Callback("onLoadStart", 0, <<>>),
                                        Callback("onLoadComplete", 0, <<>>)>>]
            /\ UNCHANGED gen
       ELSE /\ gen' = [pc |-> "getSuggestions",
                       existingMovieIds |-> genExistingMovieIds,
                       idsAtCall |-> IdsOf(mediaData.toWatch) \cup IdsOf(mediaData.watched),
                       suggestionsAtCall |-> mediaData.suggestions,
                       pending |-> {}, results |-> <<>>]
            /\ ev' = [Event("getMovieSuggestions", "none") EXCEPT
                        !.callbacks = <<Callback("onLoadStart", 0, <<>>)>>,
                        !.requests = 1]
    /\ UNCHANGED <<mediaData, localStorage, repl>>
    /\ UNCHANGED ratings

getSuggestionsThrows_savesEmpty ==
    /\ gen.pc = "getSuggestions"
    /\ gen' = GenIdle
    /\ saveSuggestions(<<>>)
    /\ ev' = [Event("getSuggestions", "throws") EXCEPT
                !.callbacks = <<Callback("onError", 0, <<>>)>>]
    /\ UNCHANGED repl
    /\ UNCHANGED ratings

\* getSuggestions rejects (no response, a status that is not ok, text that
\* parseResponseJson cannot read): the catch block of getMovieSuggestions
getSuggestionsThrows ==
    /\ gen.pc = "getSuggestions"
    /\ gen' = GenIdle
    /\ ev' = [Event("getSuggestions", "throws") EXCEPT
                !.callbacks = <<Callback("onError", 0, <<>>)>>]
    /\ UNCHANGED <<mediaData, localStorage, repl>>
    /\ UNCHANGED ratings

\* getSuggestions resolves: the candidates are cut to SuggestionLimit and one
\* lookup is started for each
getSuggestionsReturns(suggestionData) ==
    /\ gen.pc = "getSuggestions"
    /\ IF ~suggestionData.isArray
       THEN \* suggestionData.slice is not a function: caught
            /\ gen' = GenIdle
            /\ ev' = [Event("getSuggestions", "notArray") EXCEPT
                        !.callbacks = <<Callback("onError", 0, <<>>)>>]
            /\ UNCHANGED <<mediaData, localStorage>>
       ELSE LET k == IF suggestionData.n < SuggestionLimit
                     THEN suggestionData.n ELSE SuggestionLimit
            IN IF k = 0
               THEN \* Promise.all of no lookups
                    /\ gen' = GenIdle
                    /\ saveSuggestions(<<>>)
                    /\ ev' = [Event("getSuggestions", "returns") EXCEPT
                                !.callbacks = <<Callback("onLoadComplete", 0, <<>>)>>]
               ELSE /\ gen' = [gen EXCEPT !.pc = "lookups",
                                          !.pending = 1..k,
                                          !.results = [j \in 1..k |-> <<>>]]
                    /\ ev' = [Event("getSuggestions", "returns") EXCEPT !.requests = k]
                    /\ UNCHANGED <<mediaData, localStorage>>
    /\ UNCHANGED repl
    /\ UNCHANGED ratings

\* what the lookup of one candidate contributes to suggestionsWithDetails
lookupResult(movieDetails, existingMovieIds) ==
    IF movieDetails # <<>> /\ movieDetails[1].imdbID \in existingMovieIds
    THEN <<>>
    ELSE movieDetails

\* the lookup of candidate j settles; the last one to settle lets Promise.all
\* resolve, and the call filters, saves and notifies
lookupSettles(j, movieDetails) ==
    /\ gen.pc = "lookups"
    /\ j \in gen.pending
    /\ LET results == [gen.results EXCEPT ![j] = lookupResult(movieDetails, gen.existingMovieIds)]
           pending == gen.pending \ {j}
           outcome == IF movieDetails = <<>> THEN "null"
                      ELSE IF results[j] = <<>> THEN "skipped" ELSE "kept"
       IN IF pending = {}
          THEN LET validSuggestions == filterNonNull(results)
               IN /\ gen' = GenIdle
                  /\ saveSuggestions(validSuggestions)
                  /\ ev' = [Event("searchMovieByTitle", outcome) EXCEPT
                              !.callbacks = <<Callback("onLoadComplete", 0, validSuggestions)>>]
          ELSE /\ gen' = [gen EXCEPT !.results = results, !.pending = pending]
               /\ ev' = Event("searchMovieByTitle", outcome)
               /\ UNCHANGED <<mediaData, localStorage>>
    /\ UNCHANGED repl
    /\ UNCHANGED ratings

\* existingMovieIds of replaceSuggestion: the two lists and the current set
replaceExistingMovieIds ==
    IdsOf(getMovies("toWatch") \o getMovies("watched")) \cup IdsOf(getCurrentSuggestions)

\* the frame of a replaceSuggestion call at its first await; withCallbacks tells
\* whether the caller passed callback functions
ReplaceFrame(imdbID, withCallbacks) ==
    [target |-> imdbID, existingMovieIds |-> replaceExistingMovieIds,
     pc |-> "getReplacementSuggestion", callbacks |-> withCallbacks]

Notify_never(frame, callback) == <<>>

\* if (typeof onError === 'function') onError(...), and so for onReplaceComplete
Notify(frame, callback) == IF frame.callbacks THEN <<callback>> ELSE <<>>

RemoveFrame_keeps(k) == repl

\* the frames of the calls still in flight once call k has ended
RemoveFrame(k) == [j \in 1..(Len(repl) - 1) |-> IF j < k THEN repl[j] ELSE repl[j + 1]]

\* replaceSuggestion(imdbID, ...) up to its first await, called with callbacks
\* (as the suggestion cards do)
replaceSuggestion(imdbID) ==
    /\ Len(repl) < MaxRepl
    /\ repl' = Append(repl, ReplaceFrame(imdbID, TRUE))
    /\ ev' = [Event("replaceSuggestion", "none") EXCEPT
                !.callbacks = <<Callback("onReplaceStart", imdbID, <<>>)>>,
                !.requests = 1]
    /\ UNCHANGED <<mediaData, localStorage, gen>>
    /\ UNCHANGED ratings

\* the "Add to Movie Basket" button of the detail view of a suggestion:
\* addToWatchList(movie), then replaceSuggestion(movie.imdbID) without callbacks
addToWatchlistButton(movie) ==
    /\ \E k \in DOMAIN mediaData.suggestions : mediaData.suggestions[k] = movie
    /\ Len(repl) < MaxRepl
    /\ IF findMovieInLists(movie.imdbID)
       THEN /\ UNCHANGED <<mediaData, localStorage, repl>>
            /\ ev' = Event("addToWatchlistButton", "false")
       ELSE /\ mediaData' = [mediaData EXCEPT !.toWatch = unshift(@, movie)]
            /\ localStorage' = saveToLocalStorage(mediaData')
            /\ repl' = Append(repl,
                    [ReplaceFrame(movie.imdbID, FALSE) EXCEPT
                        !.existingMovieIds = @ \cup {movie.imdbID}])
            /\ ev' = [Event("addToWatchlistButton", "true") EXCEPT
                        !.requests = 1]
    /\ UNCHANGED gen
    /\ UNCHANGED ratings

\* getReplacementSuggestion rejects, or resolves to undefined (an empty array
\* was parsed) so that reading its title throws: the catch block
getReplacementSuggestionThrows(k) ==
    /\ k \in DOMAIN repl
    /\ repl[k].pc = "getReplacementSuggestion"
    /\ repl' = RemoveFrame(k)
    /\ ev' = [Event("getReplacementSuggestion", "throws") EXCEPT
                !.callbacks = Notify(repl[k], Callback("onError", 0, <<>>))]
    /\ UNCHANGED <<mediaData, localStorage, gen>>
    /\ UNCHANGED ratings

\* getReplacementSuggestion resolves to a candidate: its lookup is started
getReplacementSuggestionReturns(k) ==
    /\ k \in DOMAIN repl
    /\ repl[k].pc = "getReplacementSuggestion"
    /\ repl' = [repl EXCEPT ![k].pc = "searchMovieByTitle"]
    /\ ev' = [Event("getReplacementSuggestion", "returns") EXCEPT
                !.requests = 1]
    /\ UNCHANGED <<mediaData, localStorage, gen>>
    /\ UNCHANGED ratings

swapApplies_always(index) == TRUE

\* if (index !== -1)
swapApplies(index) == index # 0

updatedSuggestions_moveToEnd(currentSuggestions, index, newSuggestion) ==
    IF index \in DOMAIN currentSuggestions
    THEN Append(splice(currentSuggestions, index), newSuggestion)
    ELSE currentSuggestions

updatedSuggestions_truncates(currentSuggestions, index, newSuggestion) ==
    Append(SubSeq(currentSuggestions, 1, index - 1), newSuggestion)

\* updatedSuggestions = [...currentSuggestions]; updatedSuggestions[index] = newSuggestion
updatedSuggestions(currentSuggestions, index, newSuggestion) ==
    [j \in DOMAIN currentSuggestions |->
        IF j = index THEN newSuggestion ELSE currentSuggestions[j]]

alreadyInLists_never(existingMovieIds, movieDetails) == FALSE

\* existingMovieIds.includes(movieDetails.imdbID)
alreadyInLists(existingMovieIds, movieDetails) == movieDetails.imdbID \in existingMovieIds

\* the lookup of the replacement settles: the rest of replaceSuggestion
replacementLookupSettles(k, movieDetails) ==
    /\ k \in DOMAIN repl
    /\ repl[k].pc = "searchMovieByTitle"
    /\ repl' = RemoveFrame(k)
    /\ LET frame == repl[k]
           imdbID == frame.target
           index == findIndex(getCurrentSuggestions, imdbID)
       IN IF movieDetails = <<>>
          THEN /\ ev' = [Event("replacementLookup", "noDetails") EXCEPT
                            !.callbacks = Notify(frame, Callback("onError", 0, <<>>))]
               /\ UNCHANGED <<mediaData, localStorage>>
          ELSE IF alreadyInLists(frame.existingMovieIds, movieDetails[1])
          THEN /\ ev' = [Event("replacementLookup", "alreadyInLists") EXCEPT
                            !.callbacks = Notify(frame, Callback("onError", 0, <<>>))]
               /\ UNCHANGED <<mediaData, localStorage>>
          ELSE IF swapApplies(index)
          THEN /\ saveSuggestions(updatedSuggestions(getCurrentSuggestions, index, movieDetails[1]))
               /\ ev' = [Event("replacementLookup", "applied") EXCEPT
                            !.callbacks = Notify(frame,
                                Callback("onReplaceComplete", imdbID, movieDetails))]
          ELSE /\ ev' = [Event("replacementLookup", "targetGone") EXCEPT
                            !.callbacks = Notify(frame, Callback("onError", 0, <<>>))]
               /\ UNCHANGED <<mediaData, localStorage>>
    /\ UNCHANGED gen
    /\ UNCHANGED ratings

----------------------------------------------------------------------------
(* The Metadata Client: the OMDB functions of api/mistralApi.js             *)
(*                                                                          *)
(* An exchange with the service is what fetch and response.json() give: the *)
(* fetch rejects (status "rejects"), or a response arrives with a status    *)
(* that is ok or not, and a body that is no JSON, or JSON whose Response    *)
(* property is 'False', or 'True' with the movie (or first search result)   *)
(* imdbID.                                                                  *)

NoImdbID == 0           \* a returned object has no imdbID property

Exchange(status, body, imdbID) == [status |-> status, body |-> body, imdbID |-> imdbID]

Exchanges ==
    {Exchange("rejects", "none", NoImdbID)}
    \cup {Exchange(st, b, NoImdbID) : st \in {"ok", "notOk"}, b \in {"notJson", "False"}}
    \cup {Exchange(st, "True", i) : st \in {"ok", "notOk"}, i \in Ids}

\* await fetch(...) or await response.json() rejects
jsonRejects(exchange) == exchange.status = "rejects" \/ exchange.body = "notJson"

searchMovies(exchange) ==
    IF exchange.status = "rejects" THEN Throws
    ELSE IF exchange.status = "notOk" THEN Throws
    ELSE IF exchange.body = "notJson" THEN Throws
    ELSE IF exchange.body = "True" THEN Returns(<<Movie(exchange.imdbID)>>)
    ELSE Returns(<<>>)

searchMovieByTitle(exact, search, details) ==
    IF jsonRejects(exact) THEN Returns(<<>>)
    ELSE IF exact.body = "True" THEN Returns(<<Movie(exact.imdbID)>>)
    ELSE IF jsonRejects(search) THEN Returns(<<>>)
    ELSE IF search.body = "True"
         THEN IF jsonRejects(details) THEN Returns(<<>>)
              ELSE Returns(<<Movie(details.imdbID)>>)
    ELSE Returns(<<>>)

fetchMovieDetails(exchange) ==
    IF jsonRejects(exchange) THEN Returns(<<>>)
    ELSE IF exchange.body = "False" THEN Returns(<<>>)
    ELSE Returns(<<Movie(exchange.imdbID)>>)

\* the three functions called on their own
searchMoviesCall(exchange) ==
    /\ ev' = ClientEvent("searchMovies", <<exchange>>, searchMovies(exchange))
    /\ UNCHANGED <<mediaData, localStorage, gen, repl>>
    /\ UNCHANGED ratings

searchMovieByTitleCall(exact, search, details) ==
    /\ ev' = ClientEvent("searchMovieByTitle", <<exact, search, details>>,
                         searchMovieByTitle(exact, search, details))
    /\ UNCHANGED <<mediaData, localStorage, gen, repl>>
    /\ UNCHANGED ratings

fetchMovieDetailsCall(exchange) ==
    /\ ev' = ClientEvent("fetchMovieDetails", <<exchange>>, fetchMovieDetails(exchange))
    /\ UNCHANGED <<mediaData, localStorage, gen, repl>>
    /\ UNCHANGED ratings

----------------------------------------------------------------------------
(* Specification of the two lists alone, from empty lists *)

InitEmpty ==
    /\ mediaData = EmptyStore
    /\ localStorage = <<>>
    /\ gen = GenIdle
    /\ repl = <<>>
    /\ ev = NoEvent
    /\ ratings = RatingsIdle

NextLists ==
    \/ \E i \in Ids : addToWatchList(Movie(i))
    \/ \E i \in Ids, r \in RatingInputs : markAsWatched(i, r)
    \/ \E i \in Ids : markAsUnwatched(i)

SpecLists == InitEmpty /\ [][NextLists]_vars

\* C1: from empty lists, under addToWatchList, markAsWatched and markAsUnwatched,
\* no external ID is in toWatch and in watched at the same time.
ListsExclusive == IdsOf(mediaData.toWatch) \cap IdsOf(mediaData.watched) = {}

\* markAsWatched has just moved a movie to watched, with a rating, while another
\* movie is still to watch
ListsExclusiveWitness ==
    /\ ev.op = "markAsWatched"
    /\ mediaData.toWatch # <<>>
    /\ mediaData.watched # <<>>
    /\ mediaData.watched[1].userRating # NoRating

----------------------------------------------------------------------------
(* Specification of the whole Local Store *)

NextStore ==
    \/ NextLists
    \/ \E i \in Ids, list \in {"toWatch", "watched"} : removeMovie(i, list)
    \/ \E jsonData \in ImportFiles : importMovieData(jsonData)
    \/ initMediaData

SpecStore == InitEmpty /\ [][NextStore]_vars

\* C2: in every reachable state of the Local Store, an external ID is in at most
\* one of toWatch and watched.
StoreListsExclusive ==
    \A i \in Ids : ~(i \in IdsOf(mediaData.toWatch) /\ i \in IdsOf(mediaData.watched))

----------------------------------------------------------------------------
(* Specification of getMovieSuggestions.  The page loads with what an       *)
(* earlier visit left in local storage: lists of at most one movie each and *)
(* a suggestion set, no ID twice.  While a call is in flight the user may   *)
(* add any movie to the watch list (from a search).                         *)

Distinct(list) == \A j, k \in DOMAIN list : list[j].imdbID = list[k].imdbID => j = k

StoredLists == UNION {[1..n -> {Movie(i) : i \in Ids}] : n \in 0..1}

StoredSuggestions(n) == UNION {[1..m -> {Movie(i) : i \in Ids}] : m \in 0..n}

StoredAtLoad(n) ==
    {md \in [toWatch : StoredLists, watched : StoredLists, suggestions : StoredSuggestions(n)] :
        Distinct(md.toWatch \o md.watched \o md.suggestions)}

InitLoaded(n) ==
    /\ mediaData \in StoredAtLoad(n)
    /\ localStorage = IF mediaData = EmptyStore THEN <<>> ELSE saveToLocalStorage(mediaData)
    /\ gen = GenIdle
    /\ repl = <<>>
    /\ ev = NoEvent
    /\ ratings = RatingsIdle

NextGen ==
    \/ \E i \in Ids : addToWatchList(Movie(i))
    \/ getMovieSuggestions
    \/ getSuggestionsThrows
    \/ \E suggestionData \in SuggestionAnswers : getSuggestionsReturns(suggestionData)
    \/ \E j \in 1..SuggestionLimit, movieDetails \in LookupAnswers : lookupSettles(j, movieDetails)

SpecGen == InitLoaded(1) /\ [][NextGen]_vars

\* onLoadStart, then onLoadComplete([])
EmptyCompletion == <<Callback("onLoadStart", 0, <<>>), Callback("onLoadComplete", 0, <<>>)>>

Invoked(name) == \E k \in DOMAIN ev.callbacks : ev.callbacks[k].name = name

\* C4: a getMovieSuggestions call that saves a set saves no external ID that was
\* in toWatch or watched when the call began.
SavedSetExcludesListsAtCall ==
    [][(gen.pc # "idle" /\ mediaData'.suggestions # mediaData.suggestions)
         \/ (gen.pc # "idle" /\ gen'.pc = "idle" /\ ev'.ret \in {"null", "skipped", "kept", "returns"})
        => IdsOf(mediaData'.suggestions) \cap gen.idsAtCall = {}]_vars

\* the last lookup to settle resolved to a movie of the lists and was left out,
\* and the set saved holds another candidate
SavedSetExcludesListsWitness ==
    /\ ev.op = "searchMovieByTitle"
    /\ ev.ret = "skipped"
    /\ Invoked("onLoadComplete")
    /\ mediaData.suggestions # <<>>

\* C8: getMovieSuggestions called with both lists empty sends no request to the
\* Suggestion Client or the Metadata Client, starts no pending work, and
\* reports the empty set through onLoadComplete, not through onError.
EmptyListsNoRequests ==
    (ev.op = "getMovieSuggestions" /\ mediaData.toWatch = <<>> /\ mediaData.watched = <<>>)
        => /\ ev.requests = 0
           /\ gen.pc = "idle"
           /\ ev.callbacks = EmptyCompletion

EmptyListsNoRequestsWitness ==
    /\ ev.op = "getMovieSuggestions"
    /\ mediaData.toWatch = <<>>
    /\ mediaData.watched = <<>>
    /\ Invoked("onLoadComplete")

\* C9: when the Suggestion Client fails during getMovieSuggestions, the stored
\* and the persisted set are what they were when the call began, onError is
\* invoked and onLoadComplete is not.
ClientFailureLeavesSet ==
    [][(gen.pc = "getSuggestions" /\ gen'.pc = "idle" /\ ev'.ret \in {"throws", "notArray"})
        => /\ mediaData'.suggestions = gen.suggestionsAtCall
           /\ loadFromLocalStorage(localStorage').suggestions = gen.suggestionsAtCall
           /\ ev'.callbacks = <<Callback("onError", 0, <<>>)>>]_vars

\* the Suggestion Client has failed while the store held a suggestion
ClientFailureWitness ==
    /\ ev.op = "getSuggestions"
    /\ ev.ret = "throws"
    /\ Invoked("onError")
    /\ mediaData.suggestions # <<>>

\* C10: when getMovieSuggestions notifies completion with a set, the stored and
\* the persisted set equal it; when replaceSuggestion notifies completion with
\* a record, the stored set contains it.
CompletionAfterSave ==
    \A k \in DOMAIN ev.callbacks :
        /\ ev.callbacks[k].name = "onLoadComplete"
            => /\ mediaData.suggestions = ev.callbacks[k].arg
               /\ loadFromLocalStorage(localStorage).suggestions = ev.callbacks[k].arg
        /\ ev.callbacks[k].name = "onReplaceComplete"
            => \E j \in DOMAIN mediaData.suggestions :
                    mediaData.suggestions[j] = ev.callbacks[k].arg[1]

----------------------------------------------------------------------------
(* Specification of replaceSuggestion.  The page loads as above, with a set *)
(* of at most two suggestions; the user asks for replacements and adds      *)
(* suggestions to the watch list from their detail view, also while other   *)
(* replacements are in flight.  SpecReplImport adds the import of a file.   *)

\* a file whose suggestion set is longer than SuggestionLimit
OverlongFile ==
    File({"toWatch", "watched", "suggestions"}, <<>>, <<>>,
         [j \in 1..(SuggestionLimit + 1) |-> Movie(((j - 1) % NumIds) + 1)])

NextRepl ==
    \/ \E i \in Ids : replaceSuggestion(i)
    \/ \E i \in Ids : addToWatchlistButton(Movie(i))
    \/ \E k \in 1..MaxRepl : getReplacementSuggestionThrows(k)
    \/ \E k \in 1..MaxRepl : getReplacementSuggestionReturns(k)
    \/ \E k \in 1..MaxRepl, movieDetails \in LookupAnswers : replacementLookupSettles(k, movieDetails)

Spec == InitLoaded(2) /\ [][NextRepl]_vars

\* C6: a successful replaceSuggestion(target) yielding D changes the set only
\* at the index where target is found when the swap is applied: that index
\* holds D, every other index and the length are unchanged.
SwapPreservesPosition ==
    [][\A k \in 1..MaxRepl, movieDetails \in LookupAnswers :
        (ev'.ret = "applied" /\ replacementLookupSettles(k, movieDetails))
            => LET index == findIndex(mediaData.suggestions, repl[k].target)
               IN /\ index # 0
                  /\ Len(mediaData'.suggestions) = Len(mediaData.suggestions)
                  /\ mediaData'.suggestions[index] = movieDetails[1]
                  /\ \A j \in DOMAIN mediaData.suggestions :
                        j # index => mediaData'.suggestions[j] = mediaData.suggestions[j]]_vars

\* the first of two suggestions has just been replaced
SwapPreservesPositionWitness ==
    /\ ev.op = "replacementLookup"
    /\ ev.ret = "applied"
    /\ Invoked("onReplaceComplete")
    /\ Len(mediaData.suggestions) >= 2
    /\ mediaData.suggestions[1] = ev.callbacks[1].arg[1]
    /\ ev.callbacks[1].id \notin IdsOf(mediaData.suggestions)

SpecReplOne == InitLoaded(1) /\ [][NextRepl]_vars

\* C11: when the lookup of a replacement resolves to a movie whose external ID
\* was in toWatch, watched or the set when the call read them, the call invokes
\* onError (when the caller gave one) and not onReplaceComplete, and the stored
\* and the persisted set are unchanged.
DuplicateCandidateFails ==
    [][\A k \in DOMAIN repl, movieDetails \in LookupAnswers :
        (/\ ev'.op = "replacementLookup"
         /\ movieDetails # <<>>
         /\ movieDetails[1].imdbID \in repl[k].existingMovieIds
         /\ replacementLookupSettles(k, movieDetails))
            => /\ ev'.callbacks = Notify(repl[k], Callback("onError", 0, <<>>))
               /\ mediaData' = mediaData
               /\ localStorage' = localStorage]_vars

\* a replacement called with callbacks has resolved to a movie that was known
\* when the call began, while the set holds its target
DuplicateCandidateWitness ==
    /\ ev.op = "replacementLookup"
    /\ ev.ret = "alreadyInLists"
    /\ Invoked("onError")
    /\ mediaData.suggestions # <<>>

\* C3: no record of the stored set has an external ID that is also in toWatch
\* or watched (stated for the states where no replaceSuggestion call is
\* pending, so after the call that follows an addition has succeeded or failed).
SuggestionsNotInLists ==
    repl = <<>> =>
        IdsOf(mediaData.suggestions)
            \cap (IdsOf(mediaData.toWatch) \cup IdsOf(mediaData.watched)) = {}

NextReplImport ==
    \/ NextRepl
    \/ importMovieData(OverlongFile)

SpecReplImport == InitLoaded(2) /\ [][NextReplImport]_vars

\* C5: after a successful getMovieSuggestions or replaceSuggestion call the
\* stored set has at most SuggestionLimit entries.
SetWithinLimit ==
    (Invoked("onLoadComplete") \/ ev.ret = "applied")
        => Len(mediaData.suggestions) <= SuggestionLimit

----------------------------------------------------------------------------
(* Specification of the Metadata Client: its functions are called with any *)
(* exchanges.                                                               *)

NextMetadata ==
    \/ \E exchange \in Exchanges : searchMoviesCall(exchange)
    \/ \E exact \in Exchanges, search \in Exchanges, details \in Exchanges :
            searchMovieByTitleCall(exact, search, details)
    \/ \E exchange \in Exchanges : fetchMovieDetailsCall(exchange)

SpecMetadata == InitEmpty /\ [][NextMetadata]_vars

\* the first request got no response, or one whose status is not a success
requestFailed(exchange) == exchange.status \in {"rejects", "notOk"}

\* the service answered that there is no such movie
notFound(exchange) == exchange.status = "ok" /\ exchange.body = "False"

\* C17: searchMovies, searchMovieByTitle and fetchMovieDetails throw when the
\* request fails or the response has a status that is not a success, and
\* return null or [] without throwing when the service finds nothing.
MetadataFailureDistinct ==
    ev.op \in {"searchMovies", "searchMovieByTitle", "fetchMovieDetails"}
        => /\ requestFailed(ev.input[1]) => ev.output.throws
           /\ (\A k \in DOMAIN ev.input : notFound(ev.input[k])) => ev.output = Returns(<<>>)

----------------------------------------------------------------------------
(* Specification of getMovieSuggestions with every value searchMovieByTitle *)
(* can return: null, a movie, or the answer to the details request of the   *)
(* first search result returned as it is, which has no imdbID when its      *)
(* Response property is 'False'.                                            *)

NextGenDetail ==
    \/ NextGen
    \/ \E j \in 1..SuggestionLimit : lookupSettles(j, <<Movie(NoImdbID)>>)

SpecGenDetail == InitLoaded(1) /\ [][NextGenDetail]_vars

\* C12: a candidate whose lookup fails or finds no movie, or resolves to an ID of
\* the exclusion set, is left out without an error: no lookup invokes onError,
\* and the set given to onLoadComplete holds resolved movies only.
UnresolvedLeftOut ==
    /\ ev.op = "searchMovieByTitle" => ~Invoked("onError")
    /\ \A k \in DOMAIN ev.callbacks :
            ev.callbacks[k].name = "onLoadComplete"
                => \A j \in DOMAIN ev.callbacks[k].arg : ev.callbacks[k].arg[j].imdbID \in Ids

----------------------------------------------------------------------------
(* Specification of getMovieSuggestions on a store that starts empty: the   *)
(* user adds movies to the watch list and asks for suggestions.             *)

SpecGenFresh == InitEmpty /\ [][NextGen]_vars

\* the records of results, in the order of their indices
InCandidateOrder(saved, results) ==
    LET resolved == {j \in DOMAIN results : results[j] # <<>>}
    IN /\ Len(saved) = Cardinality(resolved)
       /\ \A j \in resolved : saved[Cardinality({i \in resolved : i <= j})] = results[j][1]

\* C13: whatever the order in which the lookups of one getMovieSuggestions call
\* settle, the set saved when the last one settles lists the records that were
\* kept in the order of their candidates.
SavedInCandidateOrder ==
    [][(gen.pc = "lookups" /\ gen'.pc = "idle")
        => \E last \in LookupAnswers :
            LET j == CHOOSE x \in gen.pending : TRUE
            IN InCandidateOrder(mediaData'.suggestions, [gen.results EXCEPT ![j] = last])]_vars

\* the lookup of a later candidate has settled with a record that is kept while
\* the lookup of the first candidate is still pending
SavedInCandidateOrderWitness ==
    /\ gen.pc = "lookups"
    /\ 1 \in gen.pending
    /\ \E j \in DOMAIN gen.results : j > 1 /\ j \notin gen.pending /\ gen.results[j] # <<>>

----------------------------------------------------------------------------
(* Specification of the two calls of the Suggestion Engine together, each   *)
(* made with callbacks, with every answer of the two clients.  The user     *)
(* asks for new suggestions while no replacement is in flight, and for a    *)
(* replacement while no getMovieSuggestions call is in flight.              *)

NextEngine ==
    \/ repl = <<>> /\ getMovieSuggestions
    \/ getSuggestionsThrows
    \/ \E suggestionData \in SuggestionAnswers : getSuggestionsReturns(suggestionData)
    \/ \E j \in 1..SuggestionLimit, movieDetails \in LookupAnswers : lookupSettles(j, movieDetails)
    \/ \E i \in Ids : gen.pc = "idle" /\ replaceSuggestion(i)
    \/ \E k \in 1..MaxRepl : getReplacementSuggestionThrows(k)
    \/ \E k \in 1..MaxRepl : getReplacementSuggestionReturns(k)
    \/ \E k \in 1..MaxRepl, movieDetails \in LookupAnswers : replacementLookupSettles(k, movieDetails)

SpecEngine == InitLoaded(1) /\ [][NextEngine]_vars

\* how many of the callbacks invoked report an outcome
Outcomes(callbacks) ==
    Cardinality({k \in DOMAIN callbacks :
                    callbacks[k].name \in {"onLoadComplete", "onReplaceComplete", "onError"}})

\* C14: the step in which a getMovieSuggestions or a replaceSuggestion call
\* ends invokes exactly one of the completion callback and the error callback
\* of the caller, and no earlier step of the call invokes either.
ExactlyOneOutcome ==
    [][/\ ev'.op \in {"getMovieSuggestions", "getSuggestions", "searchMovieByTitle"}
            => Outcomes(ev'.callbacks) = IF gen'.pc = "idle" THEN 1 ELSE 0
       /\ ev'.op \in {"replaceSuggestion", "getReplacementSuggestion", "replacementLookup"}
            => /\ Len(repl') >= Len(repl) => Outcomes(ev'.callbacks) = 0
               /\ \A k \in DOMAIN repl :
                    repl' = RemoveFrame(k)
                        => Outcomes(ev'.callbacks) = IF repl[k].callbacks THEN 1 ELSE 0]_vars

\* a replaceSuggestion call has ended with an error, its candidate not found,
\* on a set that an earlier getMovieSuggestions call has saved
ExactlyOneOutcomeWitness ==
    /\ ev.op = "replacementLookup"
    /\ ev.ret = "noDetails"
    /\ Outcomes(ev.callbacks) = 1
    /\ Len(mediaData.suggestions) = MaxCandidates

----------------------------------------------------------------------------
(* Specification of the operations of the Local Store that change it, from  *)
(* the empty store of a first visit.  mediaData.selectedMovie is left out:  *)
(* it starts null (mediaData.js:13), nothing assigns it while it is null    *)
(* (231, 260, 280, 300), so it is null in the record and in every blob.     *)

\* saveSuggestions called on its own
saveSuggestionsCall(suggestions) ==
    /\ saveSuggestions(suggestions)
    /\ ev' = Event("saveSuggestions", "none")
    /\ UNCHANGED <<gen, repl>>
    /\ UNCHANGED ratings

\* no JSON, a file without watched, an export of the empty store, and files
\* with one movie to watch and one suggestion
PersistFiles ==
    {NotJson, File({"toWatch"}, <<>>, <<>>, <<>>),
     File({"toWatch", "watched", "suggestions"}, <<>>, <<>>, <<>>)}
    \cup {File({"toWatch", "watched", "suggestions"}, <<Movie(1)>>, <<>>, <<Movie(i)>>) :
                i \in Ids \ {1}}

\* the user leaves a movie unrated or gives it five stars
PersistRatings == RatingInputs \ {2}

NextPersist ==
    \/ \E i \in Ids : addToWatchList(Movie(i))
    \/ \E i \in Ids, r \in PersistRatings : markAsWatched(i, r)
    \/ \E i \in Ids : markAsUnwatched(i)
    \/ \E i \in Ids, r \in PersistRatings \ {NoRating} : updateMovieRating(i, r)
    \/ \E i \in Ids, list \in {"toWatch", "watched"} : removeMovie(i, list)
    \/ \E suggestions \in StoredLists : saveSuggestionsCall(suggestions)
    \/ \E jsonData \in PersistFiles : importMovieData(jsonData)

SpecPersist == InitEmpty /\ [][NextPersist]_vars

----------------------------------------------------------------------------
(* Moves between the two lists, under SpecLists *)

\* list without its k-th record, the others in their order
Without(list, k) == SubSeq(list, 1, k - 1) \o SubSeq(list, k + 1, Len(list))

FirstIndexOf(list, imdbID) ==
    CHOOSE k \in DOMAIN list :
        list[k].imdbID = imdbID /\ \A j \in 1..(k - 1) : list[j].imdbID # imdbID

\* C16: markAsWatched(id, r) on an ID of toWatch takes its record out of toWatch
\* and puts it at the head of watched with user rating r; markAsUnwatched(id)
\* on an ID of watched takes it out of watched and puts it at the head of
\* toWatch without a user rating; the other records keep their order and the
\* two lists together hold as many records as before.
MoveNotCopy ==
    [][/\ \A i \in Ids, r \in RatingInputs :
            (i \in IdsOf(mediaData.toWatch) /\ markAsWatched(i, r))
                => /\ mediaData'.toWatch = Without(mediaData.toWatch, FirstIndexOf(mediaData.toWatch, i))
                   /\ mediaData'.watched = <<[imdbID |-> i, userRating |-> r]>> \o mediaData.watched
                   /\ Len(mediaData'.toWatch) + Len(mediaData'.watched)
                        = Len(mediaData.toWatch) + Len(mediaData.watched)
       /\ \A i \in Ids :
            (i \in IdsOf(mediaData.watched) /\ markAsUnwatched(i))
                => /\ mediaData'.watched = Without(mediaData.watched, FirstIndexOf(mediaData.watched, i))
                   /\ mediaData'.toWatch = <<[imdbID |-> i, userRating |-> NoRating]>> \o mediaData.toWatch
                   /\ Len(mediaData'.toWatch) + Len(mediaData'.watched)
                        = Len(mediaData.toWatch) + Len(mediaData.watched)]_vars

\* a rated movie has gone back to the head of a watch list that holds another
\* movie, while a third one stays watched
MoveNotCopyWitness ==
    /\ ev.op = "markAsUnwatched"
    /\ Len(mediaData.toWatch) = 2
    /\ Len(mediaData.watched) = 1
    /\ mediaData.toWatch[1].userRating = NoRating
    /\ mediaData.watched[1].userRating = 2

----------------------------------------------------------------------------
(* The Suggestion Client's reading of the model's answer: parseResponseJson *)
(* of api/mistralApi.js.                                                    *)
(*                                                                          *)
(* The text is a sequence of tokens: the four brackets, a property with its *)
(* value ("title": "Dune", "year": "2021", "reason": "epic scale"), or      *)
(* other text (field "x"), which no regular expression of the function      *)
(* needs and which JSON.parse refuses.  A candidate is a record of the      *)
(* three property values, Undefined for a property it does not have.        *)

MaxTokens == 4          \* longest text, in tokens

Undefined == "undefined"
DefaultReason == "Recommended based on your taste"

Token(field, value) == [field |-> field, value |-> value]

Brackets == {Token(b, "") : b \in {"[", "]", "{", "}"}}

Properties ==
    {Token("title", v) : v \in {"Dune", "Solaris"}}
    \cup {Token("year", v) : v \in {"2021", "1972"}}
    \cup {Token("reason", "epic scale")}

Tokens == Brackets \cup Properties \cup {Token("x", "")}

Contents == UNION {[1..n -> Tokens] : n \in 0..MaxTokens}

Candidate_noReason(title, year, reason) == [title |-> title, year |-> year, reason |-> Undefined]

Candidate(title, year, reason) == [title |-> title, year |-> year, reason |-> reason]

\* the index of the first token of the field at or after i, 0 if there is none
indexOf(content, field, i) ==
    IF \E k \in i..Len(content) : content[k].field = field
    THEN CHOOSE k \in i..Len(content) :
            content[k].field = field /\ \A j \in i..(k - 1) : content[j].field # field
    ELSE 0

lastIndexOf(content, field) ==
    IF \E k \in DOMAIN content : content[k].field = field
    THEN CHOOSE k \in DOMAIN content :
            content[k].field = field /\ \A j \in (k + 1)..Len(content) : content[j].field # field
    ELSE 0

\* content.match(/\[.*\]|\{.*\}/s): the match starts at the leftmost bracket
\* that has its closing bracket somewhere after it and runs to the last such
\* closing bracket; <<>> is null
matchStarts(content, p) ==
    \/ content[p].field = "[" /\ lastIndexOf(content, "]") > p
    \/ content[p].field = "{" /\ lastIndexOf(content, "}") > p

jsonMatch(content) ==
    IF \E p \in DOMAIN content : matchStarts(content, p)
    THEN LET p == CHOOSE q \in DOMAIN content :
                    matchStarts(content, q) /\ \A j \in 1..(q - 1) : ~matchStarts(content, j)
         IN SubSeq(content, p,
                   lastIndexOf(content, IF content[p].field = "[" THEN "]" ELSE "}"))
    ELSE <<>>

\* JSON.parse: where the value that starts at token i ends (the index after
\* it), 0 when there is no value there.  An object holds properties only; an
\* array holds objects and arrays.
RECURSIVE objectEnd(_, _)
objectEnd(text, i) ==
    IF i > Len(text) THEN 0
    ELSE IF text[i].field = "}" THEN i + 1
    ELSE IF text[i] \in Properties THEN objectEnd(text, i + 1)
    ELSE 0

RECURSIVE arrayEnd(_, _)
arrayEnd(text, i) ==
    IF i > Len(text) THEN 0
    ELSE IF text[i].field = "]" THEN i + 1
    ELSE IF text[i].field = "{"
         THEN LET e == objectEnd(text, i + 1) IN IF e = 0 THEN 0 ELSE arrayEnd(text, e)
    ELSE IF text[i].field = "["
         THEN LET e == arrayEnd(text, i + 1) IN IF e = 0 THEN 0 ELSE arrayEnd(text, e)
    ELSE 0

isJson(text) ==
    /\ text # <<>>
    /\ \/ text[1].field = "{" /\ objectEnd(text, 2) = Len(text) + 1
       \/ text[1].field = "[" /\ arrayEnd(text, 2) = Len(text) + 1

\* the value of a property of the object whose properties are the tokens
\* i..j of text: the last one of that name wins
propertyOf(text, i, j, field) ==
    IF \E k \in i..j : text[k].field = field
    THEN text[CHOOSE k \in i..j :
                text[k].field = field /\ \A m \in (k + 1)..j : text[m].field # field].value
    ELSE Undefined

objectAt(text, i) ==
    LET e == objectEnd(text, i + 1)
    IN Candidate(propertyOf(text, i + 1, e - 2, "title"),
                 propertyOf(text, i + 1, e - 2, "year"),
                 propertyOf(text, i + 1, e - 2, "reason"))

\* the elements of the array whose first element starts at token i; an element
\* that is an array has none of the three properties
RECURSIVE elementsFrom(_, _)
elementsFrom(text, i) ==
    IF text[i].field = "]" THEN <<>>
    ELSE IF text[i].field = "{"
         THEN <<objectAt(text, i)>> \o elementsFrom(text, objectEnd(text, i + 1))
    ELSE <<Candidate(Undefined, Undefined, Undefined)>> \o elementsFrom(text, arrayEnd(text, i + 1))

\* the outcome of parseResponseJson: it throws, or returns an array or a
\* single object; strategy tells which part of the function returned
ParseThrows == [throws |-> TRUE, strategy |-> "none", isArray |-> FALSE, items |-> <<>>]

Parsed(strategy, isArray, items) ==
    [throws |-> FALSE, strategy |-> strategy, isArray |-> isArray, items |-> items]

JSONparse(text) ==
    IF text[1].field = "{"
    THEN Parsed("primary", FALSE, <<objectAt(text, 1)>>)
    ELSE Parsed("primary", TRUE, elementsFrom(text, 2))

\* content.matchAll(/title ... year ... reason/gs): from the first title, the
\* nearest year after it and the nearest reason after that; the next match is
\* looked for after the reason
RECURSIVE movieMatches(_, _)
movieMatches(content, i) ==
    LET t == indexOf(content, "title", i)
        y == IF t = 0 THEN 0 ELSE indexOf(content, "year", t + 1)
        r == IF y = 0 THEN 0 ELSE indexOf(content, "reason", y + 1)
    IN IF r = 0 THEN <<>>
       ELSE <<Candidate(content[t].value, content[y].value, content[r].value)>>
                \o movieMatches(content, r + 1)

\* the catch block of parseResponseJson
fallback(content) ==
    LET suggestions == movieMatches(content, 1)
        titleMatch == indexOf(content, "title", 1)
        yearMatch == indexOf(content, "year", 1)
        reasonMatch == indexOf(content, "reason", 1)
    IN IF Len(suggestions) > 0 THEN Parsed("matchAll", TRUE, suggestions)
       ELSE IF titleMatch # 0 /\ yearMatch # 0
       THEN Parsed("single", FALSE,
                   <<Candidate(content[titleMatch].value, content[yearMatch].value,
                               IF reasonMatch # 0 THEN content[reasonMatch].value
                               ELSE DefaultReason)>>)
       ELSE ParseThrows

parseResponseJson(content) ==
    IF jsonMatch(content) # <<>> /\ isJson(jsonMatch(content))
    THEN JSONparse(jsonMatch(content))
    ELSE fallback(content)

\* the Suggestion Client has received a text; then it reads it
InitParse ==
    /\ mediaData = EmptyStore
    /\ localStorage = <<>>
    /\ gen = GenIdle
    /\ repl = <<>>
    /\ \E content \in Contents : ev = ClientEvent("content", content, ParseThrows)
    /\ ratings = RatingsIdle

parseResponseJsonCall ==
    /\ ev.op = "content"
    /\ ev' = ClientEvent("parseResponseJson", ev.input, parseResponseJson(ev.input))
    /\ UNCHANGED <<mediaData, localStorage, gen, repl>>
    /\ UNCHANGED ratings

SpecParse == InitParse /\ [][parseResponseJsonCall]_vars

\* C18: parseResponseJson uses the field patterns only when no bracketed part
\* of the text parses as JSON, and every result it returns has at least one
\* candidate, each with a title and a year; otherwise it throws.
ParseYieldsTitleAndYear ==
    ev.op = "parseResponseJson"
        => /\ ev.output.strategy \in {"matchAll", "single"}
                => ~isJson(jsonMatch(ev.input))
           /\ ~ev.output.throws
                => /\ Len(ev.output.items) >= 1
                   /\ \A k \in DOMAIN ev.output.items :
                        /\ ev.output.items[k].title # Undefined
                        /\ ev.output.items[k].year # Undefined

\* the text holds title: "Dune", year: "2021", reason: "epic scale" and no
\* bracket, with any other text around them
DuneText(content) ==
    /\ \A k \in DOMAIN content : content[k] \notin Brackets
    /\ SelectSeq(content, LAMBDA token : token \in Properties)
            = <<Token("title", "Dune"), Token("year", "2021"), Token("reason", "epic scale")>>

\* C19: from a text that holds title: "Dune", year: "2021", reason: "epic scale"
\* without array or object delimiters, the fallback of parseResponseJson yields
\* the candidate with title Dune, year 2021 and reason epic scale.
DuneFallback ==
    (ev.op = "parseResponseJson" /\ DuneText(ev.input))
        => /\ ~ev.output.throws
           /\ ev.output.strategy = "matchAll"
           /\ ev.output.items = <<[title |-> "Dune", year |-> "2021", reason |-> "epic scale"]>>

DuneFallbackWitness ==
    /\ ev.op = "parseResponseJson"
    /\ ev.input = <<Token("title", "Dune"), Token("year", "2021"), Token("reason", "epic scale")>>
    /\ ev.output.items = <<[title |-> "Dune", year |-> "2021", reason |-> "epic scale"]>>

----------------------------------------------------------------------------
(* Export and import of the Local Store: exportMovieData and importMovieData *)
(* of models/mediaData.js.                                                   *)

\* !value of JavaScript for a list: an array is an object, and an object is
\* truthy whatever it holds
truthy_nonEmpty(list) == list # <<>>

truthy(list) == TRUE

\* JSON.parse of a text written by JSON.stringify(mediaData): the file that
\* importMovieData tests and reads
JSONparseExported(text) ==
    File({property \in {"toWatch", "watched", "suggestions"} : truthy(text[property])},
         text.toWatch, text.watched, text.suggestions)

exportMovieData == JSONstringify(mediaData)

exportMovieDataCall ==
    /\ ev' = ClientEvent("exportMovieData", <<>>, exportMovieData)
    /\ UNCHANGED <<mediaData, localStorage, gen, repl>>
    /\ UNCHANGED ratings

\* the text that exportMovieData has just returned is given to importMovieData
importExported ==
    /\ ev.op = "exportMovieData"
    /\ importMovieData(JSONparseExported(ev.output))
    /\ UNCHANGED <<gen, repl>>

NextRoundTrip ==
    \/ \E i \in Ids : addToWatchList(Movie(i))
    \/ \E i \in Ids, r \in PersistRatings : markAsWatched(i, r)
    \/ \E i \in Ids : markAsUnwatched(i)
    \/ \E suggestions \in StoredLists : saveSuggestionsCall(suggestions)
    \/ exportMovieDataCall
    \/ importExported

SpecRoundTrip == InitEmpty /\ [][NextRoundTrip]_vars

\* C20: importMovieData given what exportMovieData returned answers true and
\* leaves toWatch, watched and suggestions as they were when exported, local
\* storage included, whatever the lists hold (nothing, too).
ExportImportRoundTrip ==
    [][(ev.op = "exportMovieData" /\ ev'.op = "importMovieData")
            => /\ ev'.ret = "true"
               /\ mediaData'.toWatch = ev.output.toWatch
               /\ mediaData'.watched = ev.output.watched
               /\ mediaData'.suggestions = ev.output.suggestions
               /\ mediaData' = mediaData
               /\ loadFromLocalStorage(localStorage') = mediaData]_vars

ExportImportRoundTripWitness ==
    /\ ev.op = "importMovieData"
    /\ ev.ret = "true"
    /\ mediaData.toWatch = <<>>
    /\ mediaData.watched = <<>>

----------------------------------------------------------------------------
(* importMovieData on files it must refuse *)

\* texts that are no JSON or lack toWatch, watched or both, and two exports
RefusedFiles ==
    {NotJson}
    \cup {File(has, <<Movie(1)>>, <<>>, <<>>) : has \in {{"toWatch"}, {"toWatch", "suggestions"}}}
    \cup {File(has, <<>>, <<Movie(1)>>, <<>>) : has \in {{"watched"}, {"watched", "suggestions"}}}
    \cup {File(has, <<>>, <<>>, <<Movie(1)>>) : has \in {{}, {"suggestions"}}}

AcceptedFiles ==
    {File({"toWatch", "watched", "suggestions"}, <<Movie(i)>>, <<>>, <<Movie(j)>>) :
        i \in Ids, j \in Ids}
    \cup {File({"toWatch", "watched"}, <<>>, <<Movie(i)>>, <<>>) : i \in Ids}

NextImport ==
    \/ \E i \in Ids : addToWatchList(Movie(i))
    \/ \E i \in Ids : markAsWatched(i, NoRating)
    \/ \E suggestions \in StoredLists : saveSuggestionsCall(suggestions)
    \/ \E jsonData \in RefusedFiles \cup AcceptedFiles : importMovieData(jsonData)

SpecImport == InitEmpty /\ [][NextImport]_vars

\* C21: importMovieData on a text that is no JSON, or whose object has no
\* toWatch or no watched, returns false and leaves the record in memory and
\* local storage as they were; when it returns true, toWatch, watched and
\* suggestions are those of the file and local storage holds them.
ImportRefusesInvalid ==
    [][ev'.op = "importMovieData"
        => \A jsonData \in RefusedFiles \cup AcceptedFiles :
             importMovieData(jsonData)
                => /\ (~jsonData.parses \/ ~({"toWatch", "watched"} \subseteq jsonData.has))
                        => /\ ev'.ret = "false"
                           /\ mediaData' = mediaData
                           /\ localStorage' = localStorage
                   /\ ev'.ret = "true"
                        => /\ mediaData'.toWatch = jsonData.toWatch
                           /\ mediaData'.watched = jsonData.watched
                           /\ mediaData'.suggestions =
                                IF "suggestions" \in jsonData.has
                                THEN jsonData.suggestions ELSE <<>>
                           /\ loadFromLocalStorage(localStorage') = mediaData']_vars

\* a refused import has left a store that holds a movie and a suggestion
ImportRefusesInvalidWitness ==
    /\ ev.op = "importMovieData"
    /\ ev.ret = "false"
    /\ mediaData.watched # <<>>
    /\ mediaData.suggestions # <<>>
    /\ loadFromLocalStorage(localStorage) = mediaData

----------------------------------------------------------------------------
(* addToWatchList, under SpecLists *)

NoIdTwice(list) ==
    \A j \in DOMAIN list, k \in DOMAIN list : list[j].imdbID = list[k].imdbID => j = k

\* C22: addToWatchList(movie) returns false and changes nothing when the
\* movie's ID is in toWatch or in watched; otherwise it puts the movie at the
\* head of toWatch, saves the store and returns true.  No list holds an ID
\* twice.
AddToWatchListContract ==
    /\ [](NoIdTwice(mediaData.toWatch) /\ NoIdTwice(mediaData.watched))
    /\ [][ev'.op = "addToWatchList"
            => \A i \in Ids :
                 addToWatchList(Movie(i))
                    => IF i \in IdsOf(mediaData.toWatch) \cup IdsOf(mediaData.watched)
                       THEN /\ ev'.ret = "false"
                            /\ mediaData' = mediaData
                            /\ localStorage' = localStorage
                       ELSE /\ ev'.ret = "true"
                            /\ mediaData'.toWatch = <<Movie(i)>> \o mediaData.toWatch
                            /\ mediaData'.watched = mediaData.watched
                            /\ mediaData'.suggestions = mediaData.suggestions
                            /\ loadFromLocalStorage(localStorage') = mediaData']_vars

\* a movie has been added ahead of another while a third list entry is watched
AddToWatchListContractWitness ==
    /\ ev.op = "addToWatchList"
    /\ ev.ret = "true"
    /\ Len(mediaData.toWatch) >= 2
    /\ mediaData.watched # <<>>

----------------------------------------------------------------------------
(* The saved set of getMovieSuggestions, under SpecGen *)

\* C23: the SuggestionSet that a getMovieSuggestions call saves holds no
\* external ID twice, also when two candidates of the Suggestion Client
\* resolve to the same record of the Metadata Client.
SavedSetNoIdTwice ==
    (ev.op = "searchMovieByTitle" /\ Invoked("onLoadComplete"))
        => NoIdTwice(mediaData.suggestions)

----------------------------------------------------------------------------
(* Two replaceSuggestion calls in flight at once *)

\* the Metadata Client knows one movie more than the user has met
RaceAnswers == {<<>>} \cup {<<Movie(i)>> : i \in 1..(NumIds + 1)}

\* replaceSuggestion(imdbID, ...) called with callbacks while exactly one other
\* call is waiting
replaceSuggestionWhile(imdbID) ==
    /\ Len(repl) = 1
    /\ repl' = Append(repl, ReplaceFrame(imdbID, TRUE))
    /\ ev' = [Event("replaceSuggestion", "none") EXCEPT
                !.callbacks = <<Callback("onReplaceStart", imdbID, <<>>)>>,
                !.requests = 1]
    /\ UNCHANGED <<mediaData, localStorage, gen>>
    /\ UNCHANGED ratings

\* both calls are for cards of the SuggestionSet
NextRace ==
    \/ \E i \in IdsOf(mediaData.suggestions) : repl = <<>> /\ replaceSuggestion(i)
    \/ \E i \in IdsOf(mediaData.suggestions) : replaceSuggestionWhile(i)
    \/ \E k \in 1..(MaxRepl + 1) : getReplacementSuggestionThrows(k)
    \/ \E k \in 1..(MaxRepl + 1) : getReplacementSuggestionReturns(k)
    \/ \E k \in 1..(MaxRepl + 1), movieDetails \in RaceAnswers :
            replacementLookupSettles(k, movieDetails)

SpecRace == InitLoaded(2) /\ [][NextRace]_vars

\* a replacement that was put in the set while the call of frame was waiting:
\* it is in the set now and was not when the call read the set
LandedSince(frame) == IdsOf(mediaData.suggestions) \ frame.existingMovieIds

SwapKeepsSetDistinct ==
    [][(ev'.ret = "applied" /\ NoIdTwice(mediaData.suggestions))
            => NoIdTwice(mediaData'.suggestions)]_vars

----------------------------------------------------------------------------
(* A movie added to toWatch while a call is waiting *)

InLists == IdsOf(mediaData.toWatch) \cup IdsOf(mediaData.watched)

\* getMovieSuggestions and replaceSuggestion, one at a time, with movies added
\* to the watch list in between
NextWaiting ==
    \/ \E i \in Ids : addToWatchList(Movie(i))
    \/ repl = <<>> /\ getMovieSuggestions
    \/ getSuggestionsThrows
    \/ \E suggestionData \in SuggestionAnswers : getSuggestionsReturns(suggestionData)
    \/ \E j \in 1..SuggestionLimit, movieDetails \in LookupAnswers : lookupSettles(j, movieDetails)
    \/ \E i \in Ids : gen.pc = "idle" /\ replaceSuggestion(i)
    \/ \E k \in 1..MaxRepl : getReplacementSuggestionThrows(k)
    \/ \E k \in 1..MaxRepl : getReplacementSuggestionReturns(k)
    \/ \E k \in 1..MaxRepl, movieDetails \in LookupAnswers : replacementLookupSettles(k, movieDetails)

SpecWaiting == InitLoaded(1) /\ [][NextWaiting]_vars

\* C26: when a movie is added to toWatch while getMovieSuggestions or
\* replaceSuggestion waits for the Suggestion Client or the Metadata Client,
\* the SuggestionSet the call saves holds no external ID that is in toWatch or
\* in watched when it is saved.  A set without such an ID before the save has
\* none after it.
SavedSetOutsideListsNow ==
    [][(/\ ev'.op \in {"searchMovieByTitle", "replacementLookup"}
        /\ mediaData'.suggestions # mediaData.suggestions
        /\ IdsOf(mediaData.suggestions) \cap InLists = {})
            => IdsOf(mediaData'.suggestions)
                 \cap (IdsOf(mediaData'.toWatch) \cup IdsOf(mediaData'.watched)) = {}]_vars

----------------------------------------------------------------------------
(* The movie sample sent to the Suggestion Client *)

MaxListLen == 6         \* longest list of the sampled store

SampleSize == 5         \* toWatchMovies.slice(0, 5), watchedMovies.slice(0, 5)
ReplaceSampleSize == 10 \* allMovies.slice(0, 10)

\* the movies first..(first + n - 1), each with the given rating
Numbered(first, n, rating) ==
    [j \in 1..n |-> [imdbID |-> first + j - 1, userRating |-> rating]]

\* {title, year, genre, rating} of a movie; the ID stands for title and year
SampleEntry(movie) ==
    [imdbID |-> movie.imdbID,
     rating |-> IF movie.userRating = NoRating THEN "Not rated" ELSE "rated"]

SampleOf(list) == [j \in DOMAIN list |-> SampleEntry(list[j])]

\* movieSample of getMovieSuggestions
genMovieSample ==
    SampleOf(slice(getMovies("toWatch"), SampleSize) \o slice(getMovies("watched"), SampleSize))

\* movieSample of replaceSuggestion
replaceMovieSample ==
    SampleOf(slice(getMovies("toWatch") \o getMovies("watched"), ReplaceSampleSize))

\* a store with n movies to watch and m watched ones
InitSample ==
    /\ \E n \in 0..MaxListLen, m \in 0..MaxListLen, rating \in {NoRating, 10} :
            mediaData = [toWatch |-> Numbered(1, n, NoRating),
                         watched |-> Numbered(n + 1, m, rating),
                         suggestions |-> <<>>]
    /\ localStorage = IF mediaData = EmptyStore THEN <<>> ELSE saveToLocalStorage(mediaData)
    /\ gen = GenIdle
    /\ repl = <<>>
    /\ ev = NoEvent
    /\ ratings = RatingsIdle

\* getMovieSuggestions up to the request it sends to the Suggestion Client
genSamples ==
    /\ ev.op = "none"
    /\ hasMovies
    /\ ev' = ClientEvent("getSuggestions", <<>>, genMovieSample)
    /\ UNCHANGED <<mediaData, localStorage, gen, repl>>
    /\ UNCHANGED ratings

\* replaceSuggestion up to the request it sends to the Suggestion Client
replaceSamples ==
    /\ ev.op = "none"
    /\ ev' = ClientEvent("getReplacementSuggestion", <<>>, replaceMovieSample)
    /\ UNCHANGED <<mediaData, localStorage, gen, repl>>
    /\ UNCHANGED ratings

SpecSample == InitSample /\ [][genSamples \/ replaceSamples]_vars

TakenFrom(sample, list) ==
    Cardinality({j \in DOMAIN sample : sample[j].imdbID \in IdsOf(list)})

\* C27: the movie sample sent to the Suggestion Client holds at most 5 records
\* of toWatch and at most 5 of watched, in getMovieSuggestions and in
\* replaceSuggestion, however long the lists are.
SampleWithinFivePerList ==
    ev.op \in {"getSuggestions", "getReplacementSuggestion"}
        => /\ TakenFrom(ev.output, mediaData.toWatch) <= 5
           /\ TakenFrom(ev.output, mediaData.watched) <= 5

----------------------------------------------------------------------------
(* The buttons of a suggestion card: addSuggestionCardEventListeners of the *)
(* suggestions component.                                                   *)

\* the classes of the elements that createSuggestionCard puts in a card
CardClasses ==
    {"suggestion-card-loading", "suggestion-poster", "suggestion-info", "suggestion-title",
     "suggestion-meta", "suggestion-reason", "suggestion-actions", "suggestion-add-btn",
     "suggestion-watched-btn"}

\* card.querySelector('.' + class) is an element, not null
querySelector(class) == class \in CardClasses

\* setting the card to its loading state: reading .style of null throws
loadingStateThrows ==
    ~querySelector("suggestion-card-content") \/ ~querySelector("suggestion-card-loading")

\* the frame of the replaceSuggestion call a card button makes, the movie
\* already being in a list
CardFrame(movie, md) ==
    [target |-> movie.imdbID,
     existingMovieIds |-> IdsOf(md.toWatch \o md.watched) \cup IdsOf(md.suggestions),
     pc |-> "getReplacementSuggestion", callbacks |-> TRUE]

\* the rest of a button's handler once the movie is in a list (store md)
cardReplaces(button, movie, md) ==
    /\ mediaData' = md
    /\ localStorage' = saveToLocalStorage(md)
    /\ IF loadingStateThrows
       THEN /\ repl' = repl
            /\ ev' = Event(button, "throws")
       ELSE /\ repl' = Append(repl, CardFrame(movie, md))
            /\ ev' = [Event(button, "true") EXCEPT
                        !.callbacks = IF button = "suggestionAddButton"
                                      THEN <<Callback("onReplaceStart", movie.imdbID, <<>>)>>
                                      ELSE <<>>,
                        !.requests = 1]

\* the "Add to Watchlist" button of the card of a suggestion
suggestionAddButton(movie) ==
    /\ \E k \in DOMAIN mediaData.suggestions : mediaData.suggestions[k] = movie
    /\ Len(repl) < MaxRepl
    /\ IF findMovieInLists(movie.imdbID)
       THEN /\ UNCHANGED <<mediaData, localStorage, repl>>
            /\ ev' = Event("suggestionAddButton", "false")
       ELSE cardReplaces("suggestionAddButton", movie,
                         [mediaData EXCEPT !.toWatch = unshift(@, movie)])
    /\ UNCHANGED gen
    /\ UNCHANGED ratings

\* the "Add to Watched" button: addToWatchList, then markAsWatched without a
\* rating, which moves the record just put at the head of toWatch
suggestionWatchedButton(movie) ==
    /\ \E k \in DOMAIN mediaData.suggestions : mediaData.suggestions[k] = movie
    /\ Len(repl) < MaxRepl
    /\ IF findMovieInLists(movie.imdbID)
       THEN /\ UNCHANGED <<mediaData, localStorage, repl>>
            /\ ev' = Event("suggestionWatchedButton", "false")
       ELSE cardReplaces("suggestionWatchedButton", movie,
                         [mediaData EXCEPT !.watched = unshift(@, movie)])
    /\ UNCHANGED gen
    /\ UNCHANGED ratings

NextCards ==
    \/ NextRepl
    \/ \E i \in Ids : suggestionAddButton(Movie(i))
    \/ \E i \in Ids : suggestionWatchedButton(Movie(i))

SpecCards == InitLoaded(2) /\ [][NextCards]_vars

\* C28: when a button of a suggestion card has added the movie to a list
\* (addToWatchList returned true), replaceSuggestion has been called for the
\* suggestion's ID: its call is in flight, with one request sent.
CardButtonReplaces ==
    (ev.op \in {"suggestionAddButton", "suggestionWatchedButton"} /\ ev.ret # "false")
        => /\ ev.requests = 1
           /\ \E k \in DOMAIN repl :
                /\ repl[k].target \in IdsOf(mediaData.toWatch) \cup IdsOf(mediaData.watched)
                /\ repl[k].pc = "getReplacementSuggestion"

----------------------------------------------------------------------------
(* Termination of the Suggestion Engine's calls *)

\* a request to the Suggestion Client or the Metadata Client returns or fails
ClientsAnswer ==
    \/ getSuggestionsThrows
    \/ \E suggestionData \in SuggestionAnswers : getSuggestionsReturns(suggestionData)
    \/ \E j \in 1..SuggestionLimit, movieDetails \in LookupAnswers : lookupSettles(j, movieDetails)
    \/ \E k \in 1..MaxRepl : getReplacementSuggestionThrows(k)
    \/ \E k \in 1..MaxRepl : getReplacementSuggestionReturns(k)
    \/ \E k \in 1..MaxRepl, movieDetails \in LookupAnswers : replacementLookupSettles(k, movieDetails)

\* one call at a time, so that "the call" is the one in flight
NextLive ==
    \/ repl = <<>> /\ getMovieSuggestions
    \/ \E i \in Ids : gen.pc = "idle" /\ repl = <<>> /\ replaceSuggestion(i)
    \/ ClientsAnswer

\* every request that is out is answered at some time: the promise of fetch
\* settles, and the event loop then runs the continuation of the call
SpecLive == InitLoaded(1) /\ [][NextLive]_vars /\ WF_vars(ClientsAnswer)

CallInFlight == gen.pc # "idle" \/ repl # <<>>

\* C29: a getMovieSuggestions or replaceSuggestion call that is in flight
\* ends, with its completion or its error callback invoked once, provided the
\* clients answer every request.
EveryCallEnds ==
    CallInFlight ~> (~CallInFlight /\ Outcomes(ev.callbacks) = 1)

\* a getMovieSuggestions call has ended after its lookups and saved a set
EveryCallEndsWitness ==
    /\ ~CallInFlight
    /\ ev.op = "searchMovieByTitle"
    /\ Invoked("onLoadComplete")
    /\ mediaData.suggestions # <<>>
    /\ mediaData.suggestions = ev.callbacks[1].arg

----------------------------------------------------------------------------
(* The rating modal: components/ratings.js *)

MaxClicks == 2          \* most star clicks in a run

MaxStars == 5           \* the stars carry the values 1..5
DefaultRating == 10     \* markAsWatched(currentMovie.imdbID, 10)

\* const scaledRating = currentRating * 2
scaledRating(currentRating) == currentRating * 2

\* the "mark as watched" button of the card of a movie of toWatch:
\* showRatingModal(movie)
showRatingModal(imdbID) ==
    /\ imdbID \in IdsOf(mediaData.toWatch)
    /\ ratings' = [ratings EXCEPT !.currentMovie = imdbID, !.currentRating = 0]
    /\ ev' = Event("showRatingModal", "none")
    /\ UNCHANGED <<mediaData, localStorage, gen, repl>>

\* a click on a star of the modal that is shown: setRating(value), and
\* saveRating is set to run 10 ms later
starClick(value) ==
    /\ ratings.currentMovie # NoMovie
    /\ ratings.timers < MaxClicks
    /\ Cardinality(ratings.clicked \cup {<<ratings.currentMovie, value>>}) <= MaxClicks
    /\ ratings' = [ratings EXCEPT !.currentRating = value,
                                  !.timers = @ + 1,
                                  !.clicked = @ \cup {<<ratings.currentMovie, value>>}]
    /\ ev' = Event("starClick", "none")
    /\ UNCHANGED <<mediaData, localStorage, gen, repl>>

\* the close button, the overlay or the Escape key: hideRatingModal
hideRatingModal ==
    /\ ratings.currentMovie # NoMovie
    /\ ratings' = [ratings EXCEPT !.currentMovie = NoMovie, !.currentRating = 0]
    /\ ev' = Event("hideRatingModal", "none")
    /\ UNCHANGED <<mediaData, localStorage, gen, repl>>

\* the store after markAsWatched(imdbID, rating) with a rating that is not null
markedAsWatched(md, imdbID, rating) ==
    LET movieIndex == findIndex(md.toWatch, imdbID)
    IN IF movieIndex = 0 THEN md
       ELSE [md EXCEPT !.toWatch = splice(@, movieIndex),
                       !.watched = unshift(@, [md.toWatch[movieIndex] EXCEPT
                                                    !.userRating = rating])]

\* a timer of a star click runs: saveRating(), then hideRatingModal()
saveRating ==
    /\ ratings.timers > 0
    /\ ratings' = [ratings EXCEPT !.timers = @ - 1,
                                  !.currentMovie = NoMovie, !.currentRating = 0]
    /\ IF ratings.currentMovie = NoMovie
       THEN /\ UNCHANGED <<mediaData, localStorage>>
            /\ ev' = Event("saveRating", "noMovie")
       ELSE LET rating == IF ratings.currentRating > 0
                          THEN scaledRating(ratings.currentRating)
                          ELSE DefaultRating
            IN /\ mediaData' = markedAsWatched(mediaData, ratings.currentMovie, rating)
               /\ localStorage' = IF mediaData' = mediaData THEN localStorage
                                  ELSE saveToLocalStorage(mediaData')
               /\ ev' = Event("saveRating",
                              IF ratings.currentRating > 0 THEN "rated" ELSE "default")
    /\ UNCHANGED <<gen, repl>>

NextRatings ==
    \/ \E i \in Ids : addToWatchList(Movie(i))
    \/ \E i \in Ids : showRatingModal(i)
    \/ \E value \in 1..MaxStars : starClick(value)
    \/ hideRatingModal
    \/ saveRating

SpecRatings == InitEmpty /\ [][NextRatings]_vars

\* C30: a rating that saveRating stores is an integer from 1 to 10, twice a
\* star value from 1 to 5 that the user clicked for that movie, whatever the
\* order of star clicks, showRatingModal calls, closes and timers.
StoredRatingIsTwiceClicked ==
    [][(ev'.op = "saveRating" /\ mediaData' # mediaData)
            => LET movie == mediaData'.watched[1]
               IN /\ movie.userRating \in 1..10
                  /\ \E value \in 1..5 :
                        /\ <<movie.imdbID, value>> \in ratings.clicked
                        /\ movie.userRating = 2 * value]_vars

====
